---- MODULE Spec2Model ----
(***************************************************************************)
(* yamlsplit: splits a stream of YAML documents into numbered files.       *)
(* Model of src/src/yamlsplit.rs.  Text (lines, paths, file contents) is   *)
(* a sequence of one-character strings.                                    *)
(***************************************************************************)
EXTENDS Integers, Sequences, FiniteSets, TLC

VARIABLES
  pc,                \* "basename" | "returned" | "start" | "scan" | "assign" | "done"
  args,              \* std::env::args().nth(1): a path, or NoArg
  input,             \* the lines the input stream holds
  pos,               \* index of the next line input.lines() yields
  filename,          \* the PathBuf handed to basename()
  names,             \* what basename() returned: (basename, extension), Panic, or None before
  output_file_count, \* main's output_file_count
  output_file,       \* main's output_file: None or a BufWriter
  pending,           \* the BufWriter open_new_file_for_output returned, not yet assigned
  fs,                \* the output files on disk: name -> bytes
  created,           \* names given to File::create, in call order (successful calls)
  failures,          \* the I/O failures the run has met so far, in order
  exit               \* "none" | "ok" | "err" | "panic"

vars == <<pc, args, input, pos, filename, names, output_file_count,
          output_file, pending, fs, created, failures, exit>>

----------------------------------------------------------------------------
\* Bounds

MaxLen == 5          \* longest input, in lines
MaxLineLen == 4      \* longest enumerated line, in characters
MaxPathLen == 4      \* longest enumerated path, in characters
BufCapacity == 4     \* BufWriter capacity in bytes (8 KiB in std), scaled down

----------------------------------------------------------------------------
\* Values

\* Option<T>: None is the empty sequence, Some(x) the one-element sequence
None == << >>
Some(x) == << x >>
IsSome(o) == o # << >>
Unwrap(o) == o[1]

NoNames == [tag |-> "None"]
Panic == [tag |-> "Panic"]
Pair(b, e) == [tag |-> "Pair", basename |-> b, extension |-> e]

Sep == "/"
Dot == "."
Newline == <<"\n">>

\* position of the last c in s at or before i, 0 when there is none
RECURSIVE LastIndexOf(_, _, _)
LastIndexOf(s, c, i) ==
  IF i = 0 THEN 0
  ELSE IF s[i] = c THEN i
  ELSE LastIndexOf(s, c, i - 1)

\* position of the first c in s at or after i, 0 when there is none
RECURSIVE FirstIndexOf(_, _, _)
FirstIndexOf(s, c, i) ==
  IF i > Len(s) THEN 0
  ELSE IF s[i] = c THEN i
  ELSE FirstIndexOf(s, c, i + 1)

----------------------------------------------------------------------------
\* std::path::Path on Unix, as basename() uses it

HasRoot(p) == Len(p) > 0 /\ p[1] = Sep

\* the maximal separator-free runs of p from index i on; s is where the
\* current run began
RECURSIVE Segments(_, _, _)
Segments(p, i, s) ==
  LET run == IF s < i THEN << [lo |-> s, hi |-> i - 1] >> ELSE << >>
  IN IF i > Len(p) THEN run
     ELSE IF p[i] = Sep THEN run \o Segments(p, i + 1, i + 1)
     ELSE Segments(p, i + 1, s)

ComponentKind(p, seg) ==
  LET text == SubSeq(p, seg.lo, seg.hi)
  IN IF text = <<Dot>> THEN (IF seg.lo = 1 THEN "CurDir" ELSE "Skip")
     ELSE IF text = <<Dot, Dot>> THEN "ParentDir"
     ELSE "Normal"

\* Path::components(): RootDir, a leading CurDir, ParentDir and Normal
\* components; empty segments and non-leading "." are dropped.
Components(p) ==
  LET segs == Segments(p, 1, 1)
      comp(k) == [kind |-> ComponentKind(p, segs[k]), lo |-> segs[k].lo, hi |-> segs[k].hi]
      all == [k \in 1..Len(segs) |-> comp(k)]
      keep(c) == c.kind # "Skip"
      root == IF HasRoot(p) THEN << [kind |-> "RootDir", lo |-> 1, hi |-> 1] >> ELSE << >>
  IN root \o SelectSeq(all, keep)

\* Path::parent(): None, or the path up to the end of the last-but-one component
Parent(p) ==
  LET cs == Components(p)
  IN IF cs = << >> THEN None
     ELSE IF cs[Len(cs)].kind = "RootDir" THEN None
     ELSE IF Len(cs) = 1 THEN Some(<< >>)
     ELSE Some(SubSeq(p, 1, cs[Len(cs) - 1].hi))

\* Path::file_name(): the last component when it is a Normal one
FileName(p) ==
  LET cs == Components(p)
  IN IF cs = << >> THEN None
     ELSE IF cs[Len(cs)].kind # "Normal" THEN None
     ELSE Some(SubSeq(p, cs[Len(cs)].lo, cs[Len(cs)].hi))

\* Path::extension(): what follows the last "." of file_name; None when
\* there is no "." or nothing precedes it
Extension(p) ==
  IF FileName(p) = None THEN None
  ELSE LET f == Unwrap(FileName(p))
           j == LastIndexOf(f, Dot, Len(f))
       IN IF j <= 1 THEN None ELSE Some(SubSeq(f, j + 1, Len(f)))

\* str::rsplit_once('.'): None, or the parts before and after the last "."
RSplitOnceDot(f) ==
  LET j == LastIndexOf(f, Dot, Len(f))
  IN IF j = 0 THEN None
     ELSE Some([before |-> SubSeq(f, 1, j - 1), after |-> SubSeq(f, j + 1, Len(f))])

\* a slip: a name without "." is also returned as the extension
basename_nodot(p) ==
  IF Parent(p) = None \/ FileName(p) = None THEN Panic
  ELSE LET d == IF Unwrap(Parent(p)) = << >> THEN << >> ELSE Unwrap(Parent(p)) \o <<Sep>>
           f == Unwrap(FileName(p))
           e == IF Extension(p) = None THEN << >> ELSE Unwrap(Extension(p))
           split == RSplitOnceDot(f)
       IN IF split # None THEN Pair(d \o Unwrap(split).before, e)
          ELSE Pair(d \o f, f)

\* basename(filename): Panic where an unwrap() meets None
basename(p) ==
  IF Parent(p) = None THEN Panic
  ELSE LET dirname == IF Unwrap(Parent(p)) = << >> THEN << >>
                      ELSE Unwrap(Parent(p)) \o <<Sep>>
           extension == IF Extension(p) = None THEN << >> ELSE Unwrap(Extension(p))
       IN IF FileName(p) = None THEN Panic
          ELSE LET fname == Unwrap(FileName(p))
                   split == RSplitOnceDot(fname)
               IN IF split # None
                  THEN Pair(dirname \o Unwrap(split).before, extension)
                  ELSE Pair(dirname \o fname, extension)

----------------------------------------------------------------------------
\* Line classification

\* the characters of s from index i on are all c
RECURSIVE AllFrom(_, _, _)
AllFrom(s, i, c) == IF i > Len(s) THEN TRUE
                    ELSE IF s[i] = c THEN AllFrom(s, i + 1, c)
                    ELSE FALSE

\* a slip: the pattern lacks its end anchor, "^--- *"
regex_doc_start_unanchored(line) ==
  /\ Len(line) >= 3
  /\ SubSeq(line, 1, 3) = <<"-", "-", "-">>

\* "^--- *$"
regex_doc_start(line) ==
  /\ Len(line) >= 3
  /\ SubSeq(line, 1, 3) = <<"-", "-", "-">>
  /\ AllFrom(line, 4, " ")

\* "^\.\.\. *$"
regex_doc_end(line) ==
  /\ Len(line) >= 3
  /\ SubSeq(line, 1, 3) = <<".", ".", ".">>
  /\ AllFrom(line, 4, " ")

----------------------------------------------------------------------------
\* Output files

Digits == <<"0", "1", "2", "3", "4", "5", "6", "7", "8", "9">>

\* Display of an unsigned integer: its decimal digits
RECURSIVE Decimal(_)
Decimal(n) == IF n < 10 THEN << Digits[n + 1] >>
              ELSE Decimal(n \div 10) \o << Digits[(n % 10) + 1] >>

\* a slip: the counter is left out of the name
OutputFilename_nocount(b, c, e) == b \o <<Dot>> \o e

\* format!("{}-{}.{}", basename, output_file_count, extension)
OutputFilename(b, c, e) == b \o <<"-">> \o Decimal(c) \o <<Dot>> \o e

NoFiles == [n \in {} |-> << >>]

\* a slip: the file is opened without truncation
Truncated_keep(disk, name) ==
  [n \in DOMAIN disk \cup {name} |-> IF n \in DOMAIN disk THEN disk[n] ELSE << >>]

\* File::create: the file exists and is empty afterwards
Truncated(disk, name) ==
  [n \in DOMAIN disk \cup {name} |-> IF n = name THEN << >> ELSE disk[n]]

\* a slip: a write replaces what the file holds
Appended_over(disk, name, data) == [disk EXCEPT ![name] = data]

\* a write to an open file adds the bytes at its end
Appended(disk, name, data) == [disk EXCEPT ![name] = @ \o data]

\* a write of data to the file: all of it, or a failure after k < Len(data) bytes
InnerWrite(disk, name, data) ==
  { [disk |-> Appended(disk, name, data), ok |-> TRUE, written |-> Len(data)] }
  \cup { [disk |-> Appended(disk, name, SubSeq(data, 1, k)), ok |-> FALSE, written |-> k]
         : k \in 0..(Len(data) - 1) }

\* BufWriter::flush_buf: what was written leaves the buffer
FlushBuf(w, disk) ==
  IF w.buf = << >> THEN { [w |-> w, disk |-> disk, ok |-> TRUE] }
  ELSE { [w |-> [w EXCEPT !.buf = SubSeq(w.buf, r.written + 1, Len(w.buf))],
          disk |-> r.disk, ok |-> r.ok] : r \in InnerWrite(disk, w.name, w.buf) }

\* BufWriter::write_all
WriteAll(w, data, disk) ==
  LET spare == BufCapacity - Len(w.buf)
      buffered(v, d) == [w |-> [v EXCEPT !.buf = @ \o data], disk |-> d, ok |-> TRUE]
  IN IF Len(data) < spare THEN { buffered(w, disk) }
     ELSE LET flushed == IF Len(data) > spare THEN FlushBuf(w, disk)
                         ELSE { [w |-> w, disk |-> disk, ok |-> TRUE] }
          IN UNION { IF ~f.ok THEN { f }
                     ELSE IF Len(data) >= BufCapacity
                          THEN { [w |-> f.w, disk |-> r.disk, ok |-> r.ok]
                                 : r \in InnerWrite(f.disk, f.w.name, data) }
                          ELSE { buffered(f.w, f.disk) }
                     : f \in flushed }

\* a slip: the line is written without its newline
output_line_to_file_nonewline(line, of, disk) ==
  IF of = None THEN { [of |-> of, disk |-> disk, ok |-> TRUE] }
  ELSE { [of |-> Some(r.w), disk |-> r.disk, ok |-> r.ok]
         : r \in WriteAll(Unwrap(of), line, disk) }

\* output_line_to_file(line, output_file)
output_line_to_file(line, of, disk) ==
  IF of = None THEN { [of |-> of, disk |-> disk, ok |-> TRUE] }
  ELSE UNION { IF ~r.ok THEN { [of |-> Some(r.w), disk |-> r.disk, ok |-> FALSE] }
               ELSE { [of |-> Some(q.w), disk |-> q.disk, ok |-> q.ok]
                      : q \in WriteAll(r.w, Newline, r.disk) }
               : r \in WriteAll(Unwrap(of), line, disk) }

\* a slip: the file is closed without the buffer being flushed
Drop_noflush(of, disk) == { [disk |-> disk, failed |-> FALSE] }

\* drop of an Option<BufWriter<File>>: the buffer is flushed, a failure of
\* that flush is discarded, the file is closed
Drop(of, disk) ==
  IF of = None THEN { [disk |-> disk, failed |-> FALSE] }
  ELSE { [disk |-> f.disk, failed |-> ~f.ok] : f \in FlushBuf(Unwrap(of), disk) }

\* a slip: the counter is not advanced
NextCount_stuck(c) == c

\* *output_file_count += 1
NextCount(c) == c + 1

\* a slip: the name is built from the counter after the increment
open_new_file_for_output_after(b, e, count, disk) ==
  { [ok |-> FALSE, count |-> count, disk |-> disk] }
  \cup { [ok |-> TRUE, count |-> NextCount(count),
          name |-> OutputFilename(b, NextCount(count), e),
          disk |-> Truncated(disk, OutputFilename(b, NextCount(count), e)),
          w |-> [name |-> OutputFilename(b, NextCount(count), e), buf |-> << >>]] }

\* a slip: the counter is advanced before the file is created
open_new_file_for_output_early(b, e, count, disk) ==
  LET output_filename == OutputFilename(b, count, e)
  IN { [ok |-> FALSE, count |-> NextCount(count), disk |-> disk] }
     \cup { [ok |-> TRUE, count |-> NextCount(count), name |-> output_filename,
             disk |-> Truncated(disk, output_filename),
             w |-> [name |-> output_filename, buf |-> << >>]] }

\* open_new_file_for_output(basename, extension, output_file_count): File::create
\* fails and nothing changes, or the file is created and the counter advanced
open_new_file_for_output(b, e, count, disk) ==
  LET output_filename == OutputFilename(b, count, e)
  IN { [ok |-> FALSE, count |-> count, disk |-> disk] }
     \cup { [ok |-> TRUE, count |-> NextCount(count), name |-> output_filename,
             disk |-> Truncated(disk, output_filename),
             w |-> [name |-> output_filename, buf |-> << >>]] }

----------------------------------------------------------------------------
\* Inputs

Dash == <<"-">>
StdinYaml == <<"s", "t", "d", "i", "n", ".", "y", "a", "m", "l">>
FooYaml == <<"f", "o", "o", ".", "y", "a", "m", "l">>

StartLine == <<"-", "-", "-">>
EndLine == <<".", ".", ".">>
LineA == <<"a", ":", " ", "1">>
LineB == <<"b", ":", " ", "2">>

Lines == {StartLine, EndLine, LineA, LineB}
Inputs == UNION { [1..n -> Lines] : n \in 0..MaxLen }

\* no argument, "-", or the name of an input file
Args == {None, Some(Dash), Some(FooYaml)}

\* a slip: numbering from 1, as the comment in main describes it
InitialCount_one == 1

\* let mut output_file_count = 0
InitialCount == 0

\* what the output directory may hold before the run: nothing, or a file
\* left by an earlier run on the same input file (a run on the standard input
\* names no file foo-N.yaml, and never touches one)
StaleName == <<"f", "o", "o", "-", "0", ".", "y", "a", "m", "l">>
StaleFiles == [n \in {StaleName} |-> <<"x", "\n">>]

----------------------------------------------------------------------------
\* main

Init ==
  /\ pc = "start"
  /\ args \in Args
  /\ input \in Inputs
  /\ pos = 1
  /\ filename = << >>
  /\ names = NoNames
  /\ output_file_count = InitialCount
  /\ output_file = None
  /\ pending = None
  /\ fs \in IF args = Some(FooYaml) THEN {NoFiles, StaleFiles} ELSE {NoFiles}
  /\ created = << >>
  /\ failures = << >>
  /\ exit = "none"

\* the failure of the flush in a drop, which the drop discards
FlushFailure(d) == IF d.failed THEN <<"flush">> ELSE << >>

\* the run ends with status st; the outputs still held are dropped
Terminate(st, met, held, disk) ==
  \E d \in Drop(held, disk) :
    /\ pc' = "done"
    /\ exit' = st
    /\ fs' = d.disk
    /\ failures' = failures \o met \o FlushFailure(d)
    /\ output_file' = None
    /\ pending' = None

\* lines 40-50: the name the input goes by
InputFilename(a) == IF a = None THEN Dash ELSE Unwrap(a)
Naming(a) == IF InputFilename(a) = Dash THEN StdinYaml ELSE InputFilename(a)

\* line 50: basename(PathBuf::from(input_filename)), for each argument
Named == [a \in Args |-> basename(Naming(a))]

\* a slip: an input file that cannot be opened is replaced by an empty
\* stream of the same name instead of ending the run
Resolve_ignoreopen ==
  /\ pc = "start"
  /\ \E opened \in (IF InputFilename(args) = Dash THEN {TRUE} ELSE BOOLEAN) :
       /\ filename' = Naming(args)
       /\ names' = Named[args]
       /\ failures' = IF opened THEN failures ELSE Append(failures, "open")
       /\ pc' = "scan"
       /\ output_file_count' = InitialCount
       /\ output_file' = None
       /\ UNCHANGED <<pending, fs, exit>>
  /\ UNCHANGED <<args, input, pos, created>>

\* stdin_or_input_file() and the set-up of main, lines 138-145
Resolve ==
  /\ pc = "start"
  /\ \E opened \in (IF InputFilename(args) = Dash THEN {TRUE} ELSE BOOLEAN) :
       IF ~opened
       THEN /\ Terminate("err", <<"open">>, None, fs)
            /\ UNCHANGED <<filename, names, output_file_count>>
       ELSE /\ filename' = Naming(args)
            /\ names' = Named[args]
            /\ IF Named[args].tag = "Panic"
               THEN /\ Terminate("panic", << >>, None, fs)
                    /\ UNCHANGED output_file_count
               ELSE /\ pc' = "scan"
                    /\ output_file_count' = InitialCount
                    /\ output_file' = None
                    /\ UNCHANGED <<pending, fs, failures, exit>>
  /\ UNCHANGED <<args, input, pos, created>>

\* a slip: the last line is never taken from the iterator
HasLine_short == pc = "scan" /\ pos < Len(input)

\* for line in input.lines(): there is a next line
HasLine == pc = "scan" /\ pos <= Len(input)

\* line.unwrap() on a line that failed to decode, line 148
LineUnwrapPanic ==
  /\ HasLine
  /\ Terminate("panic", <<"decode">>, output_file, fs)
  /\ UNCHANGED <<args, input, pos, filename, names, output_file_count, created>>

\* a slip: a start marker opens a file only when none is open
DocStart_lazy ==
  /\ HasLine
  /\ regex_doc_start(input[pos])
  /\ IF output_file # None
     THEN /\ pos' = pos + 1
          /\ UNCHANGED <<pc, output_file_count, output_file, pending, fs, created,
                         failures, exit>>
     ELSE \E o \in open_new_file_for_output(names.basename, names.extension,
                                            output_file_count, fs) :
            IF ~o.ok
            THEN /\ Terminate("err", <<"create">>, output_file, o.disk)
                 /\ output_file_count' = o.count
                 /\ UNCHANGED <<pos, created>>
            ELSE /\ pending' = Some(o.w)
                 /\ output_file_count' = o.count
                 /\ fs' = o.disk
                 /\ created' = Append(created, o.name)
                 /\ pc' = "assign"
                 /\ UNCHANGED <<pos, output_file, failures, exit>>
  /\ UNCHANGED <<args, input, filename, names>>

\* a start marker, lines 149-155: the new file is opened first
DocStart ==
  /\ HasLine
  /\ regex_doc_start(input[pos])
  /\ \E o \in open_new_file_for_output(names.basename, names.extension,
                                       output_file_count, fs) :
       IF ~o.ok
       THEN /\ Terminate("err", <<"create">>, output_file, o.disk)
            /\ output_file_count' = o.count
            /\ UNCHANGED created
       ELSE /\ pending' = Some(o.w)
            /\ output_file_count' = o.count
            /\ fs' = o.disk
            /\ created' = Append(created, o.name)
            /\ pc' = "assign"
            /\ UNCHANGED <<output_file, failures, exit>>
  /\ UNCHANGED <<args, input, pos, filename, names>>

\* output_file = Some(..), line 151: the previous handle is dropped
AssignOutput ==
  /\ pc = "assign"
  /\ \E d \in Drop(output_file, fs) :
       /\ fs' = d.disk
       /\ failures' = failures \o FlushFailure(d)
  /\ output_file' = pending
  /\ pending' = None
  /\ pos' = pos + 1
  /\ pc' = "scan"
  /\ UNCHANGED <<args, input, filename, names, output_file_count, created, exit>>

\* a slip: the end marker leaves the output open
DocEnd_keepopen ==
  /\ HasLine
  /\ ~regex_doc_start(input[pos])
  /\ regex_doc_end(input[pos])
  /\ pos' = pos + 1
  /\ UNCHANGED <<pc, args, input, filename, names, output_file_count, output_file,
                 pending, fs, created, failures, exit>>

\* an end marker, lines 156-158
DocEnd ==
  /\ HasLine
  /\ ~regex_doc_start(input[pos])
  /\ regex_doc_end(input[pos])
  /\ \E d \in Drop(output_file, fs) :
       /\ fs' = d.disk
       /\ failures' = failures \o FlushFailure(d)
  /\ output_file' = None
  /\ pos' = pos + 1
  /\ UNCHANGED <<pc, args, input, filename, names, output_file_count,
                 pending, created, exit>>

\* any other line, lines 159-169
ContentLine ==
  /\ HasLine
  /\ ~regex_doc_start(input[pos])
  /\ ~regex_doc_end(input[pos])
  /\ \E o \in (IF output_file = None
               THEN open_new_file_for_output(names.basename, names.extension,
                                             output_file_count, fs)
               ELSE { [ok |-> TRUE, count |-> output_file_count, disk |-> fs,
                       w |-> Unwrap(output_file)] }) :
       IF ~o.ok
       THEN /\ Terminate("err", <<"create">>, None, o.disk)
            /\ output_file_count' = o.count
            /\ UNCHANGED <<pos, created>>
       ELSE /\ output_file_count' = o.count
            /\ created' = IF output_file = None THEN Append(created, o.name) ELSE created
            /\ \E r \in output_line_to_file(input[pos], Some(o.w), o.disk) :
                 IF ~r.ok
                 THEN /\ Terminate("err", <<"write">>, r.of, r.disk)
                      /\ UNCHANGED pos
                 ELSE /\ output_file' = r.of
                      /\ fs' = r.disk
                      /\ pos' = pos + 1
                      /\ UNCHANGED <<pc, pending, failures, exit>>
  /\ UNCHANGED <<args, input, filename, names>>

\* input.lines() is exhausted, lines 170-174
EndOfInput ==
  /\ pc = "scan"
  /\ pos > Len(input)
  /\ Terminate("ok", << >>, output_file, fs)
  /\ UNCHANGED <<args, input, pos, filename, names, output_file_count, created>>

Next ==
  \/ Resolve
  \/ LineUnwrapPanic
  \/ DocStart
  \/ AssignOutput
  \/ DocEnd
  \/ ContentLine
  \/ EndOfInput

Spec == Init /\ [][Next]_vars

\* main is one sequential thread: a step that can be taken is taken. The runs
\* taken are those on a named input file in an empty directory: they go
\* through every step of main, the failure to open the input included.
InitFair ==
  /\ Init
  /\ args = Some(FooYaml)
  /\ fs = NoFiles

SpecFair == InitFair /\ [][Next]_vars /\ WF_vars(Next)

----------------------------------------------------------------------------
\* main on a one-line input, the line drawn from every short string of dashes,
\* dots, spaces, tabs and a letter

LineChars == {"-", ".", " ", "\t", "a"}
BoundedLines == UNION { [1..n -> LineChars] : n \in 0..MaxLineLen }

InitClassify ==
  /\ pc = "start"
  /\ args = None
  /\ input \in { << l >> : l \in BoundedLines }
  /\ pos = 1
  /\ filename = << >>
  /\ names = NoNames
  /\ output_file_count = InitialCount
  /\ output_file = None
  /\ pending = None
  /\ fs = NoFiles
  /\ created = << >>
  /\ failures = << >>
  /\ exit = "none"

SpecClassify == InitClassify /\ [][Next]_vars

----------------------------------------------------------------------------
\* basename() on its own

PathChars == {"a", "b", Dot, Sep}
BoundedPaths == UNION { [1..n -> PathChars] : n \in 0..MaxPathLen }

\* the paths of test_basename
TestPaths ==
  { <<"f", "o", "o">>,
    FooYaml,
    <<"f", "o", "o", ".", "b", "a", "r", ".", "y", "a", "m", "l">>,
    <<"f", "o", "o", ".", "b", "a", "r", ".", "b", "a", "z", ".", "y", "a", "m", "l">>,
    <<"d", "i", "r", "/", "f", "o", "o", ".", "b", "a", "r", ".", "b", "a", "z",
      ".", "y", "a", "m", "l">> }

Paths == BoundedPaths \cup TestPaths

InitBase ==
  /\ pc = "basename"
  /\ filename \in Paths
  /\ names = NoNames
  /\ args = None
  /\ input = << >>
  /\ pos = 1
  /\ output_file_count = InitialCount
  /\ output_file = None
  /\ pending = None
  /\ fs = NoFiles
  /\ created = << >>
  /\ failures = << >>
  /\ exit = "none"

BasenameCall ==
  /\ pc = "basename"
  /\ names' = basename(filename)
  /\ pc' = "returned"
  /\ UNCHANGED <<args, input, pos, filename, output_file_count, output_file,
                 pending, fs, created, failures, exit>>

NextBase == BasenameCall

SpecBase == InitBase /\ [][NextBase]_vars

----------------------------------------------------------------------------
\* What the properties speak of

IsMarker(line) == regex_doc_start(line) \/ regex_doc_end(line)
IsContent(line) == ~IsMarker(line)

\* the content lines of an input, in order
ContentLines(inp) == SelectSeq(inp, IsContent)

\* the indices of the start markers of an input, in order
StartIndices(inp) ==
  LET idx == [k \in 1..Len(inp) |-> k]
      isStart(k) == regex_doc_start(inp[k])
  IN SelectSeq(idx, isStart)

\* the index of the first marker after index i, Len(inp) + 1 when there is none
RECURSIVE NextMarker(_, _)
NextMarker(inp, i) ==
  IF i + 1 > Len(inp) THEN Len(inp) + 1
  ELSE IF IsMarker(inp[i + 1]) THEN i + 1
  ELSE NextMarker(inp, i + 1)

\* the lines a file holds: its bytes cut after each newline; bytes after the
\* last newline count as one more line
RECURSIVE FileLines(_)
FileLines(data) ==
  IF data = << >> THEN << >>
  ELSE LET nl == FirstIndexOf(data, "\n", 1)
       IN IF nl = 0 THEN << data >>
          ELSE << SubSeq(data, 1, nl - 1) >> \o FileLines(SubSeq(data, nl + 1, Len(data)))

\* the name of the output file with suffix k
FileNumber(k) == OutputFilename(names.basename, k, names.extension)

\* what the created files hold, concatenated in the order of their creation
RECURSIVE AllFileLines(_)
AllFileLines(k) ==
  IF k = 0 THEN << >> ELSE AllFileLines(k - 1) \o FileLines(fs[created[k]])

\* a failure of kind k is in the log
MetIn(log, k) == \E i \in 1..Len(log) : log[i] = k
Met(k) == MetIn(failures, k)

\* the run has ended successfully and no I/O operation has failed
CleanRun == pc = "done" /\ exit = "ok" /\ failures = << >>

\* every document is introduced by a start marker; only the last line may be
\* an end marker
StartIntroduced(inp) ==
  /\ Len(inp) > 0
  /\ regex_doc_start(inp[1])
  /\ \A k \in 1..Len(inp) : regex_doc_end(inp[k]) => k = Len(inp)

Example == << StartLine, LineA, StartLine, LineB, EndLine >>

\* C1: after a run without I/O failure on an input whose documents are all
\* introduced by a start marker (an end marker at most as the last line),
\* exactly one file per start marker has been created, and the file with
\* suffix i holds exactly the lines between the (i+1)-th start marker and the
\* next marker; the input ---, a: 1, ---, b: 2, ... gives two files, file 0
\* holding a: 1 and file 1 holding b: 2.
C1_FilePerStartMarker ==
  (CleanRun /\ StartIntroduced(input)) =>
    LET starts == StartIndices(input)
    IN /\ Len(created) = Len(starts)
       /\ Cardinality({ created[k] : k \in 1..Len(created) }) = Len(starts)
       /\ \A i \in 1..Len(starts) :
            /\ FileNumber(i - 1) \in DOMAIN fs
            /\ FileNumber(i - 1) \in { created[k] : k \in 1..Len(created) }
            /\ FileLines(fs[FileNumber(i - 1)])
                 = SubSeq(input, starts[i] + 1, NextMarker(input, starts[i]) - 1)
       /\ input = Example =>
            /\ Len(created) = 2
            /\ FileLines(fs[FileNumber(0)]) = << LineA >>
            /\ FileLines(fs[FileNumber(1)]) = << LineB >>

C1_Witness ==
  /\ CleanRun
  /\ input = Example
  /\ Len(created) = 2
  /\ StaleName \in DOMAIN fs

\* C2: after a run without I/O failure, the lines of the created files,
\* concatenated in file order, are exactly the content lines of the input in
\* their order; no marker line is in any file.
C2_RoundTrip ==
  CleanRun =>
    /\ AllFileLines(Len(created)) = ContentLines(input)
    /\ \A k \in 1..Len(created) :
         \A j \in 1..Len(FileLines(fs[created[k]])) :
           IsContent(FileLines(fs[created[k]])[j])

C2_Witness ==
  /\ CleanRun
  /\ Len(created) >= 2
  /\ Len(ContentLines(input)) >= 3
  /\ \E k \in 1..Len(input) : regex_doc_end(input[k])

\* C3: the k-th file created (k from 0) is named basename-k.extension: the
\* suffixes follow the order of creation, none skipped, none used twice.
C3_NamesInCallOrder ==
  \A k \in 1..Len(created) :
    created[k] = names.basename \o <<"-">> \o Decimal(k - 1) \o <<".">> \o names.extension

C3_Witness == Len(created) >= 3 /\ pc = "scan"

\* C4: the counter starts at 0, always equals the number of files created so
\* far, and every step either leaves it alone or creates one file and adds
\* one to it.
C4_CounterCountsFiles ==
  /\ output_file_count = 0
  /\ [](output_file_count = Len(created))
  /\ [][ \/ /\ output_file_count' = output_file_count
            /\ created' = created
         \/ /\ output_file_count' = output_file_count + 1
            /\ Len(created') = Len(created) + 1
            /\ SubSeq(created', 1, Len(created)) = created ]_vars

C4_Witness == output_file_count >= 3 /\ pc = "scan"

\* content lines, one end marker, content lines, and nothing else
ImplicitThenEnd(inp) ==
  \E e \in 2..(Len(inp) - 1) :
    /\ regex_doc_end(inp[e])
    /\ \A k \in (1..Len(inp)) \ {e} : IsContent(inp[k])

\* the index of the single end marker of such an input
EndIndex(inp) == CHOOSE e \in 1..Len(inp) : regex_doc_end(inp[e])

\* C5: after a run without I/O failure on an input of content lines, an end
\* marker and more content lines, exactly two files have been created: file 0
\* holds the lines before the end marker, file 1 those after it.
C5_ImplicitDocuments ==
  (CleanRun /\ ImplicitThenEnd(input)) =>
    /\ Len(created) = 2
    /\ created = << FileNumber(0), FileNumber(1) >>
    /\ FileLines(fs[FileNumber(0)]) = SubSeq(input, 1, EndIndex(input) - 1)
    /\ FileLines(fs[FileNumber(1)]) = SubSeq(input, EndIndex(input) + 1, Len(input))

C5_Witness ==
  /\ CleanRun
  /\ ImplicitThenEnd(input)
  /\ Len(input) = 5
  /\ EndIndex(input) = 3

\* C6: on an empty input no output file is ever created, the counter stays 0,
\* and the run, once it has read its (openable) input, ends successfully.
C6_EmptyInput ==
  input = << >> =>
    /\ created = << >>
    /\ output_file_count = 0
    /\ fs \in {NoFiles, StaleFiles}
    /\ (pc = "done" /\ ~Met("open")) => exit = "ok"

C6_Witness == input = << >> /\ pc = "done" /\ exit = "ok" /\ filename = FooYaml

HasDot(f) == \E k \in 1..Len(f) : f[k] = Dot
HasSep(f) == \E k \in 1..Len(f) : f[k] = Sep

\* the parent directory of a path followed by a separator, empty when the
\* path has no directory part
DirPrefix(p) ==
  IF Unwrap(Parent(p)) = << >> THEN << >> ELSE Unwrap(Parent(p)) \o <<Sep>>

\* C7: for every path whose filename component contains a ".", basename()
\* returns as extension what follows the last "." of the filename component
\* and as base name what precedes it, prefixed by the directory part and a
\* separator when there is a directory part.
C7_SplitAtLastDot ==
  (/\ pc = "returned"
   /\ FileName(filename) # None
   /\ HasDot(Unwrap(FileName(filename)))) =>
    LET f == Unwrap(FileName(filename))
        j == LastIndexOf(f, Dot, Len(f))
    IN /\ names.tag = "Pair"
       /\ names.extension = SubSeq(f, j + 1, Len(f))
       /\ names.basename = DirPrefix(filename) \o SubSeq(f, 1, j - 1)

\* C8: for every filename f (non-empty, without directory part) that
\* contains no ".", basename() returns (f, ""): the whole name is the base
\* name and the extension is empty.
C8_NoDotNoExtension ==
  (/\ pc = "returned"
   /\ filename # << >>
   /\ ~HasDot(filename)
   /\ ~HasSep(filename)) =>
    /\ names.tag = "Pair"
    /\ names.basename = filename
    /\ names.extension = << >>

C8_Witness ==
  /\ pc = "returned"
  /\ filename = <<"f", "o", "o">>
  /\ names = Pair(<<"f", "o", "o">>, << >>)

\* C9: for the input file foo.yaml the first output file is foo-1.yaml.
C9_FirstFileIsOne ==
  (filename = FooYaml /\ Len(created) >= 1) =>
    created[1] = <<"f", "o", "o", "-", "1", ".", "y", "a", "m", "l">>

\* C10: the counter changes only in a step that creates a file, and then by
\* exactly one; a step in which File::create fails leaves the counter, the
\* files created and the position in the input as they were and ends the run
\* with an error; after the end of the run nothing happens.
C10_CreateFailureAborts ==
  [][ /\ output_file_count' # output_file_count =>
           /\ output_file_count' = output_file_count + 1
           /\ Len(created') = Len(created) + 1
           /\ created'[Len(created')] \in DOMAIN fs'
      /\ (MetIn(failures', "create") /\ ~Met("create")) =>
           /\ output_file_count' = output_file_count
           /\ created' = created
           /\ DOMAIN fs' = DOMAIN fs
           /\ pos' = pos
           /\ pc' = "done"
           /\ exit' = "err"
      /\ pc = "done" => UNCHANGED vars ]_vars

C10_Witness ==
  /\ pc = "done"
  /\ exit = "err"
  /\ Met("create")
  /\ Len(created) >= 1
  /\ output_file_count = Len(created)
  /\ pos < Len(input)

\* C11: when the named input file cannot be opened, the run ends at once with
\* a returned error: no line is scanned, the counter is never advanced, and no
\* output file is created or touched.
C11_OpenFailureBeforeOutput ==
  Met("open") =>
    /\ pc = "done"
    /\ exit = "err"
    /\ pos = 1
    /\ output_file_count = 0
    /\ created = << >>
    /\ output_file = None
    /\ pending = None
    /\ fs \in {NoFiles, StaleFiles}
    /\ names = NoNames

C11_Witness ==
  /\ Met("open")
  /\ args = Some(FooYaml)
  /\ Len(input) >= 2
  /\ fs = StaleFiles

\* the files of this run that no handle is open on
OpenNames ==
  { Unwrap(h).name : h \in { o \in {output_file, pending} : o # None } }
ClosedFiles == { created[k] : k \in 1..Len(created) } \ OpenNames

\* C12: a line that fails to decode ends the scan at once with main returning
\* the underlying error; no later line is processed, no further file is
\* created, and the files closed before keep their content.
C12_DecodeFailurePropagates ==
  [][ (MetIn(failures', "decode") /\ ~Met("decode")) =>
        /\ pc' = "done"
        /\ exit' = "err"
        /\ pos' = pos
        /\ created' = created
        /\ output_file_count' = output_file_count
        /\ \A n \in ClosedFiles : fs'[n] = fs[n] ]_vars

\* C13: a failed write to an output file, the flush of a handle that is
\* closed or replaced included, ends the run at once, and never with success.
C13_WriteFailureFatal ==
  (Met("write") \/ Met("flush")) =>
    /\ pc = "done"
    /\ exit # "ok"

IsPrefix(a, b) == Len(a) <= Len(b) /\ SubSeq(b, 1, Len(a)) = a

\* what has been written to file n through handle of: the bytes on disk
\* followed by the bytes still in the handle's buffer
Written(disk, of, n) ==
  disk[n] \o (IF of # None /\ Unwrap(of).name = n THEN Unwrap(of).buf ELSE << >>)

\* C14: a start marker whose File::create succeeds creates exactly one new,
\* empty file and writes nothing to any file; the assignment that follows
\* makes the new file the current output and closes the one that was open;
\* a file opened by a start marker and closed by the next line being a start
\* marker too is empty.
C14_StartMarkerOpensFile ==
  [][ /\ (HasLine /\ regex_doc_start(input[pos]) /\ failures' = failures) =>
           /\ pc' = "assign"
           /\ Len(created') = Len(created) + 1
           /\ SubSeq(created', 1, Len(created)) = created
           /\ pending' = Some([name |-> created'[Len(created')], buf |-> << >>])
           /\ output_file' = output_file
           /\ fs'[created'[Len(created')]] = << >>
           /\ \A n \in DOMAIN fs \ {created'[Len(created')]} : fs'[n] = fs[n]
      /\ pc = "assign" =>
           /\ pc' = "scan"
           /\ pos' = pos + 1
           /\ created' = created
           /\ output_file' = pending
           /\ pending' = None
           /\ Unwrap(output_file').name = created[Len(created)]
           /\ OpenNames' = {created[Len(created)]}
           /\ Written(fs', output_file', created[Len(created)]) = << >>
           /\ \A n \in DOMAIN fs :
                /\ IsPrefix(fs[n], fs'[n])
                /\ IsPrefix(fs'[n], Written(fs, output_file, n))
                /\ failures' = failures => fs'[n] = Written(fs, output_file, n)
           /\ (output_file # None /\ pos > 1 /\ regex_doc_start(input[pos - 1])) =>
                fs'[Unwrap(output_file).name] = << >> ]_vars

C14_Witness ==
  /\ pc = "scan"
  /\ pos >= 4
  /\ IsContent(input[pos - 3])
  /\ regex_doc_start(input[pos - 2])
  /\ regex_doc_start(input[pos - 1])
  /\ output_file # None
  /\ Len(created) = 3
  /\ fs[created[1]] # << >>
  /\ fs[created[2]] = << >>

\* C15: a content line whose writes succeed is added, followed by one newline,
\* to exactly one file: to the open output, no file being created, or, when
\* none is open, to one newly created file as its first line; no other file
\* changes and an output is open afterwards.
C15_ContentLineWritten ==
  [][ (HasLine /\ IsContent(input[pos]) /\ failures' = failures) =>
        /\ pc' = "scan"
        /\ pos' = pos + 1
        /\ pending' = None
        /\ output_file' # None
        /\ LET n == Unwrap(output_file').name
           IN /\ IF output_file # None
                 THEN /\ created' = created
                      /\ output_file_count' = output_file_count
                      /\ n = Unwrap(output_file).name
                      /\ Written(fs', output_file', n)
                           = Written(fs, output_file, n) \o input[pos] \o <<"\n">>
                 ELSE /\ created' = Append(created, n)
                      /\ output_file_count' = output_file_count + 1
                      /\ Written(fs', output_file', n) = input[pos] \o <<"\n">>
              /\ DOMAIN fs' = DOMAIN fs \cup {n}
              /\ \A m \in DOMAIN fs \ {n} : fs'[m] = fs[m] ]_vars

C15_Witness ==
  /\ pc = "scan"
  /\ pos = 4
  /\ input[1] = LineA
  /\ input[2] = LineB
  /\ input[3] = LineA
  /\ Len(created) = 1
  /\ Written(fs, output_file, created[1]) = LineA \o <<"\n">> \o LineB \o <<"\n">> \o LineA \o <<"\n">>

\* C16: an end marker creates no file, leaves the counter alone and adds
\* nothing to what has been written to any file: the open output, if any, is
\* flushed and closed and no output is open afterwards; with no output open
\* the step changes nothing but the position in the input.
C16_EndMarkerOnlyCloses ==
  [][ (/\ HasLine
       /\ ~regex_doc_start(input[pos])
       /\ regex_doc_end(input[pos])
       /\ ~MetIn(failures', "decode")) =>
        /\ pc' = "scan"
        /\ pos' = pos + 1
        /\ created' = created
        /\ output_file_count' = output_file_count
        /\ output_file' = None
        /\ pending' = None
        /\ DOMAIN fs' = DOMAIN fs
        /\ \A n \in DOMAIN fs :
             /\ IsPrefix(fs[n], fs'[n])
             /\ IsPrefix(fs'[n], Written(fs, output_file, n))
             /\ failures' = failures => fs'[n] = Written(fs, output_file, n)
        /\ output_file = None =>
             UNCHANGED <<pc, args, input, filename, names, output_file_count,
                         output_file, pending, fs, created, failures, exit>> ]_vars

C16_Witness ==
  /\ pc = "scan"
  /\ pos = 4
  /\ IsContent(input[1])
  /\ regex_doc_end(input[2])
  /\ regex_doc_end(input[3])
  /\ output_file = None
  /\ Len(created) = 1
  /\ fs[created[1]] = input[1] \o <<"\n">>

\* the number of output handles that are open
OpenHandles ==
  (IF output_file # None THEN 1 ELSE 0) + (IF pending # None THEN 1 ELSE 0)

\* C17: at no moment of the run are two output files open.
C17_AtMostOneOpen == OpenHandles <= 1

\* C18: every run on a finite input ends; a run that met no I/O failure ends
\* successfully, with no output left open and every file holding all the
\* lines that were written to it.
C18_Terminates ==
  /\ <>(pc = "done")
  /\ [](pc = "done" =>
          /\ output_file = None
          /\ pending = None
          /\ failures = << >> =>
               /\ exit = "ok"
               /\ pos = Len(input) + 1
               /\ AllFileLines(Len(created)) = ContentLines(input)
               /\ \A k \in 1..Len(created) :
                    /\ fs[created[k]] # << >> => fs[created[k]][Len(fs[created[k]])] = "\n"
                    /\ \A j \in 1..Len(FileLines(fs[created[k]])) :
                         \E i \in 1..Len(input) : input[i] = FileLines(fs[created[k]])[j])

C18_Witness ==
  /\ pc = "done"
  /\ exit = "ok"
  /\ failures = << >>
  /\ Len(input) = MaxLen
  /\ IsContent(input[MaxLen])
  /\ Len(created) >= 2

\* a line of three c followed only by characters of ws
MarkerThenOnly(line, c, ws) ==
  /\ Len(line) >= 3
  /\ \A k \in 1..3 : line[k] = c
  /\ \A k \in 4..Len(line) : line[k] \in ws

\* which branch of the loop body a step takes on the line it reads, for a
\* step in which neither the decoding of the line nor File::create fails
ReadsLine ==
  /\ HasLine
  /\ MetIn(failures', "decode") = Met("decode")
  /\ MetIn(failures', "create") = Met("create")
TreatedAsStart == pc' = "assign"
TreatedAsEnd == pc' = "scan" /\ output_file' = None
TreatedAsContent ==
  pc' # "assign" /\ (output_file' # None \/ MetIn(failures', "write"))

Classifies(ws) ==
  ReadsLine =>
    /\ TreatedAsStart <=> MarkerThenOnly(input[pos], "-", ws)
    /\ TreatedAsEnd <=> MarkerThenOnly(input[pos], ".", ws)
    /\ TreatedAsContent <=>
         /\ ~MarkerThenOnly(input[pos], "-", ws)
         /\ ~MarkerThenOnly(input[pos], ".", ws)

\* C19, as claimed: a line is a start marker exactly when it is three dashes
\* followed only by whitespace (spaces or tabs), an end marker exactly when
\* it is three dots followed only by whitespace, and content otherwise.
C19_ClassifiesWhitespace == [][Classifies({" ", "\t"})]_vars

\* C19, amended: a line is a start marker exactly when it is three dashes
\* followed only by space characters, an end marker exactly when it is three
\* dots followed only by space characters, and content otherwise (a marker
\* followed by a tab is content).
C19_ClassifiesSpaces == [][Classifies({" "})]_vars

C19_Witness ==
  /\ pc = "scan"
  /\ pos = 2
  /\ input[1] = <<"-", "-", "-", "\t">>
  /\ output_file # None
  /\ Written(fs, output_file, created[1]) = <<"-", "-", "-", "\t", "\n">>

\* the bytes of a sequence of lines, each followed by a newline
RECURSIVE Bytes(_)
Bytes(ls) == IF ls = << >> THEN << >> ELSE Head(ls) \o <<"\n">> \o Bytes(Tail(ls))

\* the bytes of the longest run of content lines of the input that starts at
\* line a; no content line holds a newline, so the bytes of the shorter runs
\* from a are its prefixes that end in a newline
RECURSIVE RunBytes(_)
RunBytes(a) ==
  IF a > Len(input) \/ ~IsContent(input[a]) THEN << >>
  ELSE input[a] \o <<"\n">> \o RunBytes(a + 1)

\* data is (a prefix of, or when exact is asked all of) the bytes of one
\* contiguous run of content lines of the input
ContiguousRun(data, exact) ==
  \/ data = << >>
  \/ \E a \in 1..Len(input) :
       /\ IsPrefix(data, RunBytes(a))
       /\ exact => data[Len(data)] = "\n"

\* C20: no step changes, re-creates or reopens a file of the run that is
\* closed; after every step the output that lines are written to is the file
\* created last, the one numbered counter - 1; and what has been written to
\* a file, whenever a step creates, holds open or changes it, is one
\* contiguous run of content lines of the input (cut short only where a write
\* failed), so that every file holds such a run for good once it is closed.
C20_ClosedFilesFrozen ==
  [][ /\ \A n \in ClosedFiles :
           /\ n \in DOMAIN fs'
           /\ fs'[n] = fs[n]
           /\ n \notin OpenNames'
      /\ (pc' = "scan" /\ output_file' # None) =>
           /\ Unwrap(output_file').name = created'[Len(created')]
           /\ Unwrap(output_file').name
                = OutputFilename(names'.basename, output_file_count' - 1, names'.extension)
      /\ pending' # None => Unwrap(pending').name = created'[Len(created')]
      /\ \A k \in 1..Len(created') :
           (created'[k] \in OpenNames' \/ k > Len(created)
              \/ fs'[created'[k]] # fs[created'[k]]) =>
             ContiguousRun(Written(fs', output_file', created'[k]), failures' = << >>) ]_vars

C20_Witness ==
  /\ pc = "done"
  /\ exit = "ok"
  /\ Len(input) = MaxLen
  /\ input[1] = LineA
  /\ regex_doc_end(input[2])
  /\ input[3] = LineB
  /\ regex_doc_start(input[4])
  /\ input[5] = LineA
  /\ fs[created[1]] = Bytes(<< LineA >>)
  /\ fs[created[2]] = Bytes(<< LineB >>)
  /\ fs[created[3]] = Bytes(<< LineA >>)

====
